---- MODULE Spec2Model ----
(***************************************************************************)
(* Model of libs/gltfio/src/BindingHelper.cpp: the UrlCache (URI -> blob   *)
(* map, pending-upload counter, deferred self-destruction) and             *)
(* BindingHelper::loadResources, which resolves the buffer bindings of an  *)
(* asset and hands them to the engine as asynchronous uploads.             *)
(***************************************************************************)
EXTENDS Integers, Sequences, FiniteSets, TLC

(***************************************************************************)
(* Bounds of the model.                                                    *)
(***************************************************************************)
\* Number of loadResources calls made on one BindingHelper.
MaxCalls == 2
\* Number of engine threads that run completion callbacks at the same time.
MaxThreads == 2
\* Number of completion callbacks the sink fires beyond the uploads it got.
MaxExtra == 1
\* Number of addResource calls made on a cache used on its own.
MaxInserts == 3

(***************************************************************************)
(* URIs are sequences of characters, so that the classification of         *)
(* isBase64 / isFile is computed on them the way the code computes it.     *)
(***************************************************************************)
DataPrefix == <<"d", "a", "t", "a", ":">>
Base64Marker == <<";", "b", "a", "s", "e", "6", "4">>
SchemeSep == <<":", "/", "/">>

UriEmbedded ==
    DataPrefix
    \o <<"a", "p", "p", "l", "i", "c", "a", "t", "i", "o", "n", "/">>
    \o <<"o", "c", "t", "e", "t", "-", "s", "t", "r", "e", "a", "m">>
    \o Base64Marker \o <<",", "A", "A", "A", "A">>
UriMesh == <<"m", "e", "s", "h", ".", "b", "i", "n">>
UriAnim == <<"a", "n", "i", "m", ".", "b", "i", "n">>
UriHttp ==
    <<"h", "t", "t", "p">> \o SchemeSep
    \o <<"h", "o", "s", "t", "/">> \o UriMesh
\* "data:" without a ";base64" marker before its first comma.
UriDataPlain == DataPrefix \o <<",", "x">>
\* "data:" URI whose marker is not immediately before the first comma,
\* and which holds "://".
UriDataScheme ==
    DataPrefix \o Base64Marker \o <<"x", ",">> \o SchemeSep

\* A base64 "data:" URI whose payload holds "://".
UriEmbeddedScheme == DataPrefix \o Base64Marker \o <<",">> \o SchemeSep

Uris ==
    {UriEmbedded, UriMesh, UriAnim, UriHttp, UriDataPlain, UriDataScheme,
     UriEmbeddedScheme}

\* nullptr, as a blob pointer. Blobs are numbered from 1.
NullBlob == 0

\* The empty tsl::robin_map.
EmptyMap == [u \in {} |-> NullBlob]

(***************************************************************************)
(* String helpers of the C library, on character sequences.                *)
(***************************************************************************)
\* strncmp(s + at - 1, lit, Len(lit)) == 0
HasAt(s, at, lit) ==
    /\ at >= 1
    /\ at + Len(lit) - 1 <= Len(s)
    /\ \A k \in 1..Len(lit) : s[at + k - 1] = lit[k]

\* strchr(s, c): index of the first c, 0 when there is none.
StrChr(s, c) ==
    IF \E k \in 1..Len(s) : s[k] = c
    THEN CHOOSE k \in 1..Len(s) : s[k] = c /\ \A j \in 1..(k - 1) : s[j] # c
    ELSE 0

\* strstr(s, lit) != nullptr
StrStr(s, lit) == \E at \in 1..Len(s) : HasAt(s, at, lit)

\* A slip in isBase64: the ";base64" marker is not looked for.
isBase64_NoMarker(bb) == HasAt(bb.uri, 1, DataPrefix)

\* BindingHelper::isBase64
isBase64(bb) ==
    /\ HasAt(bb.uri, 1, DataPrefix)
    /\ LET comma == StrChr(bb.uri, ",")
       IN /\ comma # 0
          /\ comma - 1 >= 7
          /\ HasAt(bb.uri, comma - 7, Base64Marker)

\* A slip in isFile: the test of strstr inverted.
isFile_Inverted(bb) == StrStr(bb.uri, SchemeSep)

\* BindingHelper::isFile
isFile(bb) == ~StrStr(bb.uri, SchemeSep)

(***************************************************************************)
(* Buffer bindings and assets.                                             *)
(***************************************************************************)
Binding(u, v, x, a, o) ==
    [uri |-> u, vertexBuffer |-> v, indexBuffer |-> x,
     animationBuffer |-> a, orientationBuffer |-> o]

VertexBinding(u) == Binding(u, TRUE, FALSE, FALSE, FALSE)
IndexBinding(u) == Binding(u, FALSE, TRUE, FALSE, FALSE)
AnimationBinding(u) == Binding(u, FALSE, FALSE, TRUE, FALSE)
OrientationBinding(u) == Binding(u, FALSE, FALSE, FALSE, TRUE)
MalformedBinding(u) == Binding(u, FALSE, FALSE, FALSE, FALSE)

\* An asset: its buffer bindings and the size of FFilamentAsset::mOrientationBuffer.
Asset(bs, osize) == [bindings |-> bs, mOrientationBuffer |-> osize]

\* Two vertex buffers and one animation buffer, three distinct URIs.
ScenarioAsset ==
    Asset(<<VertexBinding(UriEmbedded), VertexBinding(UriMesh),
            AnimationBinding(UriAnim)>>, 0)

Assets ==
    { ScenarioAsset,
      Asset(<<VertexBinding(UriMesh), IndexBinding(UriMesh),
              OrientationBinding(UriAnim)>>, 1),
      Asset(<<IndexBinding(UriMesh), VertexBinding(UriHttp),
              VertexBinding(UriAnim)>>, 0),
      Asset(<<VertexBinding(UriEmbedded), MalformedBinding(UriMesh),
              IndexBinding(UriAnim)>>, 0),
      Asset(<<AnimationBinding(UriDataPlain), VertexBinding(UriDataScheme),
              VertexBinding(UriMesh)>>, 0),
      Asset(<<IndexBinding(UriEmbeddedScheme)>>, 0),
      Asset(<<>>, 0) }

NoAsset == Asset(<<>>, 0)

VARIABLES
    \* UrlCache (lines 92-95) and whether the object exists
    mOwnerDestroyed, mPendingUploads, mBlobs, cacheAlive,
    \* BindingHelper: whether the helper exists (it owns mCache)
    helperAlive,
    \* the thread calling loadResources: position, asset, loop index, `data`
    pc, asset, i, data,
    \* the engine: uploads submitted whose callback has not fired
    inFlight,
    \* the heap: the blobs that are allocated; blob b was loaded from uri
    \* heap[b]. No code of the file frees a blob.
    heap,
    \* history
    calls, ret, failAt, failWhy, loadFailedAt, atCall, touched, loadCount,
    classified, submitted, completed, copies, nullUses, tangentCalls, destroyCount,
    destroyedBy, useAfterFree,
    \* the threads, when their reads and writes of the cache interleave:
    \* the callback each engine thread is in, and the value the calling
    \* thread has read from mPendingUploads
    cb, mainTmp

vars ==
    <<mOwnerDestroyed, mPendingUploads, mBlobs, cacheAlive, helperAlive,
      pc, asset, i, data, inFlight, heap,
      calls, ret, failAt, failWhy, loadFailedAt, atCall, touched, loadCount,
      classified, submitted, completed, copies, nullUses, tangentCalls, destroyCount,
      destroyedBy, useAfterFree, cb, mainTmp>>

cacheVars == <<mOwnerDestroyed, mPendingUploads, mBlobs, cacheAlive>>
lifeVars == <<destroyCount, destroyedBy, useAfterFree>>
loadVars == <<heap, loadCount, loadFailedAt, classified>>
mainVars == <<pc, asset, i, data>>
raceVars == <<cb, mainTmp>>
Threads == 1..MaxThreads
callVars == <<calls, ret, failAt, failWhy, atCall, touched>>
sinkVars == <<inFlight, submitted, copies, nullUses>>

\* BindingHelper::BindingHelper and UrlCache's member initialisers
Init ==
    /\ mOwnerDestroyed = FALSE
    /\ mPendingUploads = 0
    /\ mBlobs = EmptyMap
    /\ cacheAlive = TRUE
    /\ helperAlive = TRUE
    /\ pc = "idle"
    /\ asset = NoAsset
    /\ i = 0
    /\ data = NullBlob
    /\ inFlight = 0
    /\ heap = << >>
    /\ calls = 0
    /\ ret = "none"
    /\ failAt = 0
    /\ failWhy = "none"
    /\ loadFailedAt = 0
    /\ atCall = [pending |-> 0, completed |-> 0, copies |-> 0]
    /\ touched = {}
    /\ loadCount = [u \in Uris |-> 0]
    /\ classified = [u \in Uris |-> "none"]
    /\ submitted = 0
    /\ completed = 0
    /\ copies = 0
    /\ nullUses = 0
    /\ tangentCalls = 0
    /\ destroyCount = 0
    /\ destroyedBy = "none"
    /\ useAfterFree = FALSE
    /\ cb = [t \in Threads |-> [pc |-> "idle", tmp |-> 0]]
    /\ mainTmp = 0

(***************************************************************************)
(* UrlCache                                                                *)
(***************************************************************************)
\* UrlCache::getResource
getResource(uri) ==
    IF uri \in DOMAIN mBlobs THEN mBlobs[uri] ELSE NullBlob

\* UrlCache::addResource: the value of mBlobs after mBlobs[uri] = blob
addResource(uri, blob) ==
    [u \in (DOMAIN mBlobs) \cup {uri} |-> IF u = uri THEN blob ELSE mBlobs[u]]

\* A slip in addPendingUpload: the count is left as it was.
addPendingUpload_NoIncrement == mPendingUploads

\* UrlCache::addPendingUpload: the value of mPendingUploads after ++
addPendingUpload == mPendingUploads + 1

\* A member of the cache is read or written: on a deleted cache this is a
\* use after free.
CacheAccess == useAfterFree' = (useAfterFree \/ ~cacheAlive)

\* delete cache: ~UrlCache runs (it frees no blob) and the object is gone.
DeleteCache(by) ==
    /\ cacheAlive' = FALSE
    /\ destroyCount' = destroyCount + 1
    /\ destroyedBy' = by

\* Slips in the test of onLoadedResource: the owner is not asked about, or
\* the count is compared before its decrement (mPendingUploads-- == 0).
LoadedResourceDeletes_NoOwnerCheck(count) == count = 0
LoadedResourceDeletes_PostDecrement(count) == count + 1 = 0 /\ mOwnerDestroyed

\* The test of onLoadedResource, on the decremented count.
LoadedResourceDeletes(count) == count = 0 /\ mOwnerDestroyed

\* A slip in onOwnerDestroyed: delete this, whatever is pending.
OwnerDestroyedDeletes_Always == TRUE

\* Another slip in onOwnerDestroyed: the flag is set, whatever is pending.
OwnerDestroyedDeletes_Never == FALSE

\* The test of onOwnerDestroyed.
OwnerDestroyedDeletes == mPendingUploads = 0

\* UrlCache::onLoadedResource, the completion callback of one upload,
\* run by the engine.
onLoadedResource ==
    /\ UNCHANGED raceVars
    /\ inFlight > 0
    /\ pc # "crashed"
    /\ inFlight' = inFlight - 1
    /\ completed' = completed + 1
    /\ CacheAccess
    /\ mPendingUploads' = mPendingUploads - 1
    /\ IF LoadedResourceDeletes(mPendingUploads - 1)
       THEN DeleteCache("callback")
       ELSE UNCHANGED <<cacheAlive, destroyCount, destroyedBy>>
    /\ UNCHANGED <<mOwnerDestroyed, mBlobs, helperAlive, mainVars, loadVars,
                   callVars, submitted, copies, nullUses, tangentCalls>>

\* UrlCache::onOwnerDestroyed, called by BindingHelper::~BindingHelper
\* between two loadResources calls.
onOwnerDestroyed ==
    /\ UNCHANGED raceVars
    /\ pc = "idle"
    /\ helperAlive
    /\ helperAlive' = FALSE
    /\ CacheAccess
    /\ IF OwnerDestroyedDeletes
       THEN /\ DeleteCache("owner")
            /\ UNCHANGED mOwnerDestroyed
       ELSE /\ mOwnerDestroyed' = TRUE
            /\ UNCHANGED <<cacheAlive, destroyCount, destroyedBy>>
    /\ UNCHANGED <<mPendingUploads, mBlobs, mainVars, loadVars, callVars,
                   sinkVars, completed, tangentCalls>>

(***************************************************************************)
(* BindingHelper::loadResources                                            *)
(***************************************************************************)
\* The binding the loop is at.
bb == asset.bindings[i]

\* Position after the body of the loop for binding i: ++i, i < n.
AfterBinding ==
    /\ i' = i + 1
    /\ pc' = IF i + 1 <= Len(asset.bindings) THEN "resolve" ELSE "tangents"

\* A slip in the error paths: the line is logged and the loop goes on.
ReturnFalse_Continue(why) ==
    /\ ret' = ret
    /\ failAt' = i
    /\ failWhy' = why
    /\ AfterBinding
    /\ UNCHANGED <<mPendingUploads, inFlight>>

\* A slip in the error paths: the count of pending uploads is reset when the
\* call gives up.
ReturnFalse_Rollback(why) ==
    /\ ret' = "false"
    /\ failAt' = i
    /\ failWhy' = why
    /\ pc' = "idle"
    /\ mPendingUploads' = 0
    /\ UNCHANGED <<i, inFlight>>

\* return false, after the log line that says why: nothing is undone, the
\* count and the uploads handed to the engine are as they were.
ReturnFalse(why) ==
    /\ ret' = "false"
    /\ failAt' = i
    /\ failWhy' = why
    /\ pc' = "idle"
    /\ UNCHANGED <<i, mPendingUploads, inFlight>>

\* BindingHelper::loadBase64: whether it can return a blob. The decoding
\* itself is cgltf's and may fail.
loadBase64(b) ==
    IF ~HasAt(b.uri, 1, DataPrefix)
    THEN {FALSE}
    ELSE LET comma == StrChr(b.uri, ",")
         IN IF comma # 0 /\ comma - 1 >= 7 /\ HasAt(b.uri, comma - 7, Base64Marker)
            THEN {TRUE, FALSE}
            ELSE {FALSE}

\* BindingHelper::loadFile: cgltf reads the file, which may fail.
loadFile(b) == {TRUE, FALSE}

\* The loader `kind` ran for uri; on success it allocated a new blob.
Loaded(uri, kind, ok) ==
    /\ classified' = [classified EXCEPT ![uri] = kind]
    /\ loadCount' = [loadCount EXCEPT ![uri] = @ + 1]
    /\ loadFailedAt' = IF ~ok /\ loadFailedAt = 0 THEN i ELSE loadFailedAt
    /\ heap' = IF ok THEN Append(heap, uri) ELSE heap
    /\ data' = IF ok THEN Len(heap) + 1 ELSE NullBlob
    /\ mBlobs' = addResource(uri, IF ok THEN Len(heap) + 1 ELSE NullBlob)

\* The call: the asset is any of Assets.
LoadResourcesBegin ==
    /\ UNCHANGED raceVars
    /\ pc = "idle"
    /\ helperAlive
    /\ calls < MaxCalls
    /\ \E a \in Assets :
        /\ asset' = a
        /\ pc' = IF Len(a.bindings) >= 1 THEN "resolve" ELSE "tangents"
    /\ i' = 1
    /\ calls' = calls + 1
    /\ ret' = "none"
    /\ failAt' = 0
    /\ failWhy' = "none"
    /\ loadFailedAt' = 0
    /\ atCall' = [pending |-> mPendingUploads, completed |-> completed,
                  copies |-> copies]
    /\ touched' = {}
    /\ UNCHANGED <<cacheVars, helperAlive, data, heap, loadCount, classified,
                   sinkVars, completed, tangentCalls, lifeVars>>

\* Lines 108-121: look the URI up, load it on a miss.
Resolve ==
    /\ UNCHANGED raceVars
    /\ pc = "resolve"
    /\ touched' = touched \cup {i}
    /\ CacheAccess
    /\ IF getResource(bb.uri) # NullBlob
       THEN /\ data' = getResource(bb.uri)
            /\ pc' = "dispatch"
            /\ UNCHANGED <<mBlobs, loadVars, ret, failAt, failWhy, i,
                           mPendingUploads, inFlight>>
       ELSE IF isBase64(bb)
       THEN /\ \E ok \in loadBase64(bb) : Loaded(bb.uri, "base64", ok)
            /\ pc' = "dispatch"
            /\ UNCHANGED <<ret, failAt, failWhy, i, mPendingUploads, inFlight>>
       ELSE IF isFile(bb)
       THEN /\ \E ok \in loadFile(bb) : Loaded(bb.uri, "file", ok)
            /\ pc' = "dispatch"
            /\ UNCHANGED <<ret, failAt, failWhy, i, mPendingUploads, inFlight>>
       ELSE /\ ReturnFalse("unresolved")
            /\ classified' = [classified EXCEPT ![bb.uri] = "unresolved"]
            /\ UNCHANGED <<mBlobs, heap, loadCount, loadFailedAt, data>>
    /\ UNCHANGED <<mOwnerDestroyed, cacheAlive, helperAlive,
                   asset, calls, atCall, submitted, copies, nullUses,
                   completed, tangentCalls, destroyCount, destroyedBy>>

\* memcpy(dst, ucdata, size): reading from a null blob is undefined; the
\* call either gets through (nothing is read) or the process dies.
Memcpy ==
    /\ copies' = copies + 1
    /\ nullUses' = IF data = NullBlob THEN nullUses + 1 ELSE nullUses
    /\ \/ AfterBinding
       \/ data = NullBlob /\ pc' = "crashed" /\ UNCHANGED i

\* A slip in the dispatch: the animation buffer is sent as an upload too.
IsUpload_AnyBuffer(b) == b.vertexBuffer \/ b.indexBuffer \/ b.animationBuffer

\* Lines 123 and 127: the binding goes to the engine as an upload.
IsUpload(b) == b.vertexBuffer \/ b.indexBuffer

\* Lines 131 and 133: the binding is copied into a buffer of the asset.
IsCopy(b) == b.animationBuffer \/ b.orientationBuffer

\* Lines 123-124 and 127-128: the upload is counted.
DispatchUpload ==
    /\ pc = "dispatch"
    /\ IsUpload(bb)
    /\ CacheAccess
    /\ mPendingUploads' = addPendingUpload
    /\ pc' = "submit"
    /\ UNCHANGED <<mOwnerDestroyed, mBlobs, cacheAlive, helperAlive, asset, i,
                   data, loadVars, callVars, sinkVars, completed, tangentCalls,
                   destroyCount, destroyedBy, raceVars>>

\* Lines 131-138: the copies, and the binding with no target.
DispatchOther ==
    /\ pc = "dispatch"
    /\ ~IsUpload(bb)
    /\ IF IsCopy(bb)
       THEN /\ Memcpy
            /\ UNCHANGED <<ret, failAt, failWhy, mPendingUploads, inFlight>>
       ELSE /\ ReturnFalse("malformed")
            /\ UNCHANGED <<copies, nullUses>>
    /\ UNCHANGED <<mOwnerDestroyed, mBlobs, cacheAlive, helperAlive, asset,
                   data, loadVars, calls, atCall, touched, submitted,
                   completed, tangentCalls, lifeVars, raceVars>>

\* Lines 122-138: dispatch on the target of the binding.
Dispatch == DispatchUpload \/ DispatchOther

\* setBufferAt / setBuffer: the buffer descriptor, with onLoadedResource as
\* its callback, is handed to the engine.
Submit ==
    /\ UNCHANGED raceVars
    /\ pc = "submit"
    /\ inFlight' = inFlight + 1
    /\ submitted' = submitted + 1
    /\ nullUses' = IF data = NullBlob THEN nullUses + 1 ELSE nullUses
    /\ AfterBinding
    /\ UNCHANGED <<cacheVars, helperAlive, asset, data, loadVars, callVars,
                   copies, completed, tangentCalls, lifeVars>>

\* Lines 141-145: the tangents, then return true.
Finish ==
    /\ UNCHANGED raceVars
    /\ pc = "tangents"
    /\ tangentCalls' =
         IF asset.mOrientationBuffer > 0 THEN tangentCalls + 1 ELSE tangentCalls
    /\ ret' = "true"
    /\ pc' = "idle"
    /\ UNCHANGED <<cacheVars, helperAlive, asset, i, data, loadVars, calls,
                   failAt, failWhy, atCall, touched, sinkVars, completed,
                   lifeVars>>

Next ==
    \/ LoadResourcesBegin
    \/ Resolve
    \/ Dispatch
    \/ Submit
    \/ Finish
    \/ onLoadedResource
    \/ onOwnerDestroyed

Spec == Init /\ [][Next]_vars

(***************************************************************************)
(* The same operations with the reads and writes of mPendingUploads and    *)
(* mOwnerDestroyed as separate steps: both are plain members (lines 93-94) *)
(* that the calling thread and the engine's threads access with no lock    *)
(* and no atomic.                                                          *)
(***************************************************************************)
\* What a step of an engine thread leaves alone.
callbackFrame ==
    <<mOwnerDestroyed, mBlobs, helperAlive, mainVars, loadVars, callVars,
      submitted, copies, nullUses, tangentCalls, mainTmp>>

\* ++mPendingUploads, the read.
AddPendingRead ==
    /\ pc = "dispatch"
    /\ IsUpload(bb)
    /\ CacheAccess
    /\ mainTmp' = mPendingUploads
    /\ pc' = "increment"
    /\ UNCHANGED <<cacheVars, helperAlive, asset, i, data, loadVars, callVars,
                   sinkVars, completed, tangentCalls, destroyCount,
                   destroyedBy, cb>>

\* ++mPendingUploads, the write.
AddPendingWrite ==
    /\ pc = "increment"
    /\ CacheAccess
    /\ mPendingUploads' = mainTmp + 1
    /\ pc' = "submit"
    /\ UNCHANGED <<mOwnerDestroyed, mBlobs, cacheAlive, helperAlive, asset, i,
                   data, loadVars, callVars, sinkVars, completed, tangentCalls,
                   destroyCount, destroyedBy, raceVars>>

\* Engine thread t, the first that is free, starts the callback of an
\* upload: --mPendingUploads, the read.
CallbackRead(t) ==
    /\ pc # "crashed"
    /\ inFlight > 0
    /\ cb[t].pc = "idle"
    /\ \A u \in 1..(t - 1) : cb[u].pc # "idle"
    /\ inFlight' = inFlight - 1
    /\ CacheAccess
    /\ cb' = [cb EXCEPT ![t] = [pc |-> "write", tmp |-> mPendingUploads]]
    /\ UNCHANGED <<mPendingUploads, cacheAlive, destroyCount, destroyedBy,
                   completed>>
    /\ UNCHANGED callbackFrame

\* --mPendingUploads, the write; the test of the result against 0.
CallbackWrite(t) ==
    /\ pc # "crashed"
    /\ cb[t].pc = "write"
    /\ CacheAccess
    /\ mPendingUploads' = cb[t].tmp - 1
    /\ IF cb[t].tmp - 1 = 0
       THEN /\ cb' = [cb EXCEPT ![t] = [pc |-> "test", tmp |-> 0]]
            /\ UNCHANGED completed
       ELSE /\ cb' = [cb EXCEPT ![t] = [pc |-> "idle", tmp |-> 0]]
            /\ completed' = completed + 1
    /\ UNCHANGED <<inFlight, cacheAlive, destroyCount, destroyedBy>>
    /\ UNCHANGED callbackFrame

\* The read of mOwnerDestroyed, and delete cache.
CallbackTest(t) ==
    /\ pc # "crashed"
    /\ cb[t].pc = "test"
    /\ CacheAccess
    /\ IF mOwnerDestroyed
       THEN DeleteCache("callback")
       ELSE UNCHANGED <<cacheAlive, destroyCount, destroyedBy>>
    /\ cb' = [cb EXCEPT ![t] = [pc |-> "idle", tmp |-> 0]]
    /\ completed' = completed + 1
    /\ UNCHANGED <<mPendingUploads, inFlight>>
    /\ UNCHANGED callbackFrame

\* ~BindingHelper calls onOwnerDestroyed: the read of mPendingUploads.
OwnerDestroyedRead ==
    /\ pc = "idle"
    /\ helperAlive
    /\ helperAlive' = FALSE
    /\ CacheAccess
    /\ mainTmp' = mPendingUploads
    /\ pc' = "release"
    /\ UNCHANGED <<cacheVars, asset, i, data, loadVars, callVars, sinkVars,
                   completed, tangentCalls, destroyCount, destroyedBy, cb>>

\* onOwnerDestroyed: delete this, or the write of mOwnerDestroyed.
OwnerDestroyedAct ==
    /\ pc = "release"
    /\ pc' = "gone"
    /\ CacheAccess
    /\ IF mainTmp = 0
       THEN /\ DeleteCache("owner")
            /\ UNCHANGED mOwnerDestroyed
       ELSE /\ mOwnerDestroyed' = TRUE
            /\ UNCHANGED <<cacheAlive, destroyCount, destroyedBy>>
    /\ UNCHANGED <<mPendingUploads, mBlobs, helperAlive, asset, i, data,
                   loadVars, callVars, sinkVars, completed, tangentCalls,
                   raceVars>>

\* After a use of the deleted cache the process may die at any time.
Fault ==
    /\ useAfterFree
    /\ pc # "crashed"
    /\ pc' = "crashed"
    /\ UNCHANGED <<cacheVars, helperAlive, asset, i, data, loadVars, callVars,
                   sinkVars, completed, tangentCalls, lifeVars, raceVars>>

RaceNext ==
    \/ LoadResourcesBegin
    \/ Resolve
    \/ AddPendingRead
    \/ AddPendingWrite
    \/ DispatchOther
    \/ Submit
    \/ Finish
    \/ \E t \in Threads : CallbackRead(t)
    \/ \E t \in Threads : CallbackWrite(t)
    \/ \E t \in Threads : CallbackTest(t)
    \/ OwnerDestroyedRead
    \/ OwnerDestroyedAct
    \/ Fault

RaceSpec == Init /\ [][RaceNext]_vars

(***************************************************************************)
(* A second release: onOwnerDestroyed runs once more for the same cache    *)
(* (the destructor of a second BindingHelper that holds the same mCache).  *)
(* The function has no test of its own that it ran before. On a deleted    *)
(* cache the value it reads for mPendingUploads is whatever the freed      *)
(* memory holds.                                                           *)
(***************************************************************************)
onOwnerDestroyedAgain ==
    /\ pc = "idle"
    /\ ~helperAlive
    /\ pc' = "gone"
    /\ CacheAccess
    /\ \E deletes \in IF cacheAlive THEN {OwnerDestroyedDeletes} ELSE BOOLEAN :
        IF deletes
        THEN /\ DeleteCache("owner")
             /\ UNCHANGED mOwnerDestroyed
        ELSE /\ mOwnerDestroyed' = TRUE
             /\ UNCHANGED <<cacheAlive, destroyCount, destroyedBy>>
    /\ UNCHANGED <<mPendingUploads, mBlobs, helperAlive, asset, i, data,
                   loadVars, callVars, sinkVars, completed, tangentCalls,
                   raceVars>>

ReleaseTwiceNext ==
    \/ Next
    \/ onOwnerDestroyedAgain
    \/ Fault

ReleaseTwiceSpec == Init /\ [][ReleaseTwiceNext]_vars

(***************************************************************************)
(* A sink that breaks its contract: it runs onLoadedResource once more     *)
(* than uploads were submitted to it.                                      *)
(***************************************************************************)
\* Callbacks fired beyond the uploads submitted.
ExtraCallbacks == completed + inFlight - submitted

onLoadedResourceExtra ==
    /\ pc # "crashed"
    /\ ExtraCallbacks < MaxExtra
    /\ completed' = completed + 1
    /\ CacheAccess
    /\ mPendingUploads' = mPendingUploads - 1
    /\ IF LoadedResourceDeletes(mPendingUploads - 1)
       THEN DeleteCache("callback")
       ELSE UNCHANGED <<cacheAlive, destroyCount, destroyedBy>>
    /\ UNCHANGED <<mOwnerDestroyed, mBlobs, helperAlive, mainVars, loadVars,
                   callVars, sinkVars, tangentCalls, raceVars>>

ExtraCallbackNext ==
    \/ Next
    \/ onLoadedResourceExtra
    \/ Fault

ExtraCallbackSpec == Init /\ [][ExtraCallbackNext]_vars

(***************************************************************************)
(* The map of the cache on its own: addResource is called with freshly     *)
(* allocated blobs for any URIs, and getResource reads the map.            *)
(***************************************************************************)
Insert(u) ==
    /\ Len(heap) < MaxInserts
    /\ heap' = Append(heap, u)
    /\ mBlobs' = addResource(u, Len(heap) + 1)
    /\ UNCHANGED <<mOwnerDestroyed, mPendingUploads, cacheAlive, helperAlive,
                   mainVars, inFlight, callVars, loadCount, loadFailedAt,
                   classified, submitted, completed, copies, nullUses,
                   tangentCalls, lifeVars, raceVars>>

InsertNext == \E u \in Uris : Insert(u)

InsertSpec == Init /\ [][InsertNext]_vars

\* The upload sink fires the callback of every upload it was given.
FairSpec == Spec /\ WF_vars(onLoadedResource)

\* The thread inside loadResources keeps running; nothing is assumed about
\* the engine, whose callbacks may never fire.
CallFairSpec == Spec /\ WF_vars(Resolve \/ Dispatch \/ Submit \/ Finish)

(***************************************************************************)
(* The states of the cache.                                                *)
(***************************************************************************)
Released == ~helperAlive
Destroyed == ~cacheAlive
Active == cacheAlive /\ ~mOwnerDestroyed
ReleasedPending == cacheAlive /\ mOwnerDestroyed
InLoadResources == pc \in {"resolve", "dispatch", "submit", "tangents"}

\* C1: the cache is destroyed at most once, only once the owner has released
\* it and mPendingUploads is 0, and it is destroyed as soon as it is released
\* and every submitted upload has completed, whichever comes last.
C1_DestroyedOnceAfterBoth ==
    /\ destroyCount <= 1
    /\ Destroyed <=> destroyCount = 1
    /\ Destroyed => Released /\ mPendingUploads = 0 /\ inFlight = 0
    /\ (Released /\ inFlight = 0) => Destroyed
    /\ destroyedBy = "owner" => completed = submitted

\* The last callback destroyed a cache released while uploads were pending.
C1_Witness == destroyedBy = "callback" /\ Released /\ completed >= 2

\* No thread is inside an operation of the cache.
Quiescent ==
    /\ pc \in {"idle", "gone"}
    /\ \A t \in Threads : cb[t].pc = "idle"

\* C2 as stated: however the reads and writes of the calling thread and of
\* the engine threads interleave, no decrement is lost, the cache is not
\* destroyed twice nor used once destroyed, and a cache that was released
\* and whose callbacks have all fired is destroyed.
C2_SynchronizedAccess ==
    /\ destroyCount <= 1
    /\ ~useAfterFree
    /\ Quiescent /\ cacheAlive => mPendingUploads = inFlight
    /\ (Quiescent /\ Released /\ inFlight = 0) => Destroyed

\* C3: once the owner has released the cache, and the sink fires every
\* callback, the cache is eventually destroyed.
C3_EventuallyDestroyed == Released ~> Destroyed

\* Three uploads completed, the last of them after the release.
C3_Witness ==
    Destroyed /\ destroyedBy = "callback" /\ submitted >= 3
    /\ completed = submitted

\* C4 as stated: mPendingUploads is the number of uploads submitted and not
\* yet completed, in every state.
C4_PendingEqualsInFlight == mPendingUploads >= 0 /\ mPendingUploads = inFlight

\* C4, amended: mPendingUploads is never negative and is the number of
\* uploads submitted and not yet completed, plus one while loadResources is
\* between addPendingUpload and the submission of that upload.
C4_PendingCountsUploads ==
    /\ mPendingUploads >= 0
    /\ mPendingUploads = inFlight + (IF pc = "submit" THEN 1 ELSE 0)

\* An upload was counted and not yet submitted, after a callback fired.
C4_Witness ==
    pc = "submit" /\ completed >= 1 /\ inFlight >= 1
    /\ mPendingUploads = inFlight + 1

\* C5: the cache is not destroyed while an upload is in flight, and no
\* member of a destroyed cache is read or written: loadResources and the
\* callbacks find the cache alive.
C5_NoUseAfterDestroy ==
    /\ ~useAfterFree
    /\ Destroyed => inFlight = 0
    /\ InLoadResources => Active
    /\ inFlight > 0 => Active \/ ReleasedPending

\* A callback fired on a released cache and left it alive for the next one.
C5_Witness == ReleasedPending /\ completed >= 1 /\ inFlight >= 1

\* C6 as stated: a loader runs at most once for a URI, and there is at most
\* one blob for a URI.
C6_LoaderAtMostOncePerUri ==
    /\ \A u \in Uris : loadCount[u] <= 1
    /\ \A a, b \in DOMAIN heap : heap[a] = heap[b] => a = b

\* C7 as stated: once a loader has failed for a binding, nothing is
\* dispatched from its null blob, no later binding is looked at and the call
\* returns false.
C7_LoadFailureAborts ==
    loadFailedAt # 0 =>
        /\ nullUses = 0
        /\ touched \subseteq 1..loadFailedAt
        /\ pc = "idle" => ret = "false"

\* A URI with "://" that is no base64 data URI.
Unresolvable(b) == StrStr(b.uri, SchemeSep) /\ ~isBase64(b)

\* C8: a binding whose URI is not cached and is neither embedded nor a file
\* makes loadResources return false at once: no loader runs, the cache and
\* mPendingUploads are left alone and no later binding is looked at.
C8_UnresolvableAborts ==
    /\ [][(/\ pc = "resolve"
           /\ pc' # pc
           /\ getResource(bb.uri) = NullBlob
           /\ Unresolvable(bb))
          => (/\ ret' = "false"
              /\ pc' = "idle"
              /\ UNCHANGED <<mBlobs, heap, loadCount, mPendingUploads,
                             inFlight, submitted, copies>>)]_vars
    /\ [](failWhy = "unresolved" =>
            /\ pc = "idle"
            /\ ret = "false"
            /\ touched \subseteq 1..failAt
            /\ Unresolvable(asset.bindings[failAt]))

\* The second binding has an http URI, after an upload for the first.
C8_Witness ==
    failWhy = "unresolved" /\ ret = "false" /\ failAt = 2 /\ inFlight = 1
    /\ asset.bindings[2].uri = UriHttp /\ Len(asset.bindings) = 3

NoTarget(b) ==
    ~b.vertexBuffer /\ ~b.indexBuffer /\ ~b.animationBuffer
    /\ ~b.orientationBuffer

\* C9: a binding with no target makes loadResources return false: no later
\* binding is looked at, and the uploads submitted before it stay counted in
\* mPendingUploads until their callbacks fire.
C9_MalformedAborts ==
    /\ [][(pc = "dispatch" /\ pc' # pc /\ NoTarget(bb))
          => (/\ ret' = "false"
              /\ pc' = "idle"
              /\ UNCHANGED <<mBlobs, heap, loadCount, mPendingUploads,
                             inFlight, submitted, copies>>)]_vars
    /\ [](failWhy = "malformed" =>
            /\ pc = "idle"
            /\ ret = "false"
            /\ touched \subseteq 1..failAt
            /\ NoTarget(asset.bindings[failAt])
            /\ mPendingUploads = inFlight)

\* The second binding has no target; the upload of the first is pending.
C9_Witness ==
    failWhy = "malformed" /\ ret = "false" /\ failAt = 2
    /\ inFlight = 1 /\ mPendingUploads = 1 /\ Len(asset.bindings) = 3

UploadTargets(a) ==
    Cardinality({k \in 1..Len(a.bindings) :
                    a.bindings[k].vertexBuffer \/ a.bindings[k].indexBuffer})

CopyTargets(a) ==
    Cardinality({k \in 1..Len(a.bindings) :
                    /\ ~a.bindings[k].vertexBuffer
                    /\ ~a.bindings[k].indexBuffer
                    /\ (a.bindings[k].animationBuffer
                        \/ a.bindings[k].orientationBuffer)})

\* C10: when loadResources has returned true and no callback has fired since
\* the call began, mPendingUploads has grown by the number of vertex and index
\* bindings, and the other bindings were copied; for the scenario asset it is
\* 2, and the cache is destroyed once both callbacks have fired after the
\* release.
C10_PendingAfterSuccess ==
    /\ (cacheAlive /\ pc = "idle" /\ ret = "true"
        /\ completed = atCall.completed)
       => /\ mPendingUploads = atCall.pending + UploadTargets(asset)
          /\ copies = atCall.copies + CopyTargets(asset)
    /\ (asset = ScenarioAsset /\ calls = 1 /\ pc = "idle" /\ ret = "true")
       => /\ completed = 0 => mPendingUploads = 2 /\ copies = 1
          /\ (Released /\ completed = 2) => Destroyed

\* The scenario asset is loaded and none of its two callbacks has fired.
C10_Witness ==
    asset = ScenarioAsset /\ calls = 1 /\ pc = "idle" /\ ret = "true"
    /\ completed = 0 /\ mPendingUploads = 2 /\ Active

\* C11 as stated: a second release neither destroys the cache a second time
\* nor works on a destroyed cache.
C11_SecondReleaseGuarded == destroyCount <= 1 /\ ~useAfterFree

\* C12 as stated: a completion that arrives with mPendingUploads at 0 is
\* caught; the count is never driven below 0.
C12_UnderflowIsFatal == mPendingUploads >= 0

\* C13 as stated: once the cache is destroyed, no blob that was inserted
\* into it is still allocated.
C13_BlobsReleasedOnDestroy == Destroyed => heap = << >>

\* The classification in the words of C14.
EmbeddedByClaim(u) ==
    /\ Len(u) >= 5
    /\ SubSeq(u, 1, 5) = <<"d", "a", "t", "a", ":">>
    /\ \E c \in 1..Len(u) :
        /\ u[c] = ","
        /\ \A j \in 1..(c - 1) : u[j] # ","
        /\ c - 1 >= 7
        /\ SubSeq(u, c - 7, c - 1) = <<";", "b", "a", "s", "e", "6", "4">>

ExternalByClaim(u) ==
    ~\E k \in 1..(Len(u) - 2) : SubSeq(u, k, k + 2) = <<":", "/", "/">>

ClassByClaim(u) ==
    IF EmbeddedByClaim(u) THEN "base64"
    ELSE IF ExternalByClaim(u) THEN "file"
    ELSE "unresolved"

\* C14: a URI that is not cached is given to loadBase64 exactly when it starts
\* with "data:" and has ";base64" right before its first comma, else to
\* loadFile exactly when it holds no "://", else it is not resolved; the three
\* URIs of the spec are embedded, external and unresolved in this order.
C14_Classification ==
    /\ \A u \in Uris : classified[u] \in {"none", ClassByClaim(u)}
    /\ classified[UriEmbedded] \in {"none", "base64"}
    /\ classified[UriMesh] \in {"none", "file"}
    /\ classified[UriHttp] \in {"none", "unresolved"}
    /\ classified[UriEmbeddedScheme] \in {"none", "base64"}

\* The three URIs of the spec have been classified.
C14_Witness ==
    /\ classified[UriEmbedded] = "base64"
    /\ classified[UriMesh] = "file"
    /\ classified[UriHttp] = "unresolved"

\* The first blob that was allocated for u.
FirstBlob(u) ==
    CHOOSE b \in DOMAIN heap : heap[b] = u /\ \A c \in 1..(b - 1) : heap[c] # u

\* C15 as stated: after two inserts for one URI the lookup still returns the
\* blob of the first.
C15_FirstWriterWins == \A u \in DOMAIN mBlobs : getResource(u) = FirstBlob(u)

\* C16: a callback may fire while loadResources runs. Whenever one fires,
\* mPendingUploads is at least 1 before its decrement and the cache is alive;
\* while the owner has not released the cache the callback leaves it alive
\* and not released, so loadResources always works on a live cache.
C16_CallbackDuringLoad ==
    /\ [][completed' # completed =>
            /\ mPendingUploads >= 1
            /\ cacheAlive
            /\ helperAlive => (cacheAlive' /\ ~mOwnerDestroyed')]_vars
    /\ [](InLoadResources => Active)

\* The callback of the first upload fired during the call and drained the
\* count; the upload of a later binding is counted and about to be submitted.
C16_Witness ==
    /\ pc = "submit"
    /\ i >= 2
    /\ completed > atCall.completed
    /\ inFlight = 0
    /\ mPendingUploads = 1
    /\ Active

\* C17: a loadResources call that returns false undoes nothing. The step
\* that returns false leaves mPendingUploads and the uploads handed to the
\* engine as they were; each callback that fires afterwards lowers the count
\* by exactly one; once the owner has released the cache it is destroyed
\* exactly when no upload is left in flight, and that does happen.
C17_NoRollbackOnFailure ==
    /\ [][(pc # "idle" /\ pc' = "idle" /\ ret' = "false") =>
            /\ mPendingUploads' = mPendingUploads
            /\ inFlight' = inFlight
            /\ submitted' = submitted]_vars
    /\ [][completed' # completed =>
            /\ completed' = completed + 1
            /\ mPendingUploads' = mPendingUploads - 1]_vars
    /\ []((ret = "false" /\ pc = "idle") => mPendingUploads = inFlight)
    /\ []((ret = "false" /\ Released) => (Destroyed <=> inFlight = 0))
    /\ ((ret = "false" /\ Released) ~> Destroyed)

\* The only call failed at its second or third binding, the owner released
\* the cache while uploads of the earlier bindings were in flight, and the
\* last of their callbacks destroyed it.
C17_Witness ==
    /\ calls = 1
    /\ ret = "false"
    /\ failAt >= 2
    /\ completed >= 1
    /\ Destroyed
    /\ destroyedBy = "callback"

\* C18 as stated: loadResources waits for no upload. Every call returns
\* true or false, whether or not a callback ever fires, and it looks at the
\* bindings one by one in order, each at most once.
C18_TerminatesWithoutWaiting ==
    /\ [][touched' # touched =>
            \/ touched' = {}
            \/ touched' = touched \cup {i} /\ touched = 1..(i - 1)]_vars
    /\ [](touched \subseteq 1..Len(asset.bindings))
    /\ (pc # "idle") ~> (pc = "idle" /\ ret \in {"true", "false"})

\* Whether the asset has a binding whose target is the orientation buffer.
HasOrientationBinding(a) ==
    \E k \in DOMAIN a.bindings : a.bindings[k].orientationBuffer

\* C19 as stated: computeTangents is invoked only once every binding of the
\* call has been processed with success (resolved, loaded and dispatched),
\* only if the asset has an orientation-buffer binding, and in the step that
\* then returns true; a call that returns false never invokes it.
C19_TangentsAfterSuccess ==
    /\ [][tangentCalls' # tangentCalls =>
            /\ tangentCalls' = tangentCalls + 1
            /\ touched = 1..Len(asset.bindings)
            /\ failAt = 0
            /\ loadFailedAt = 0
            /\ HasOrientationBinding(asset)
            /\ ret' = "true"
            /\ pc' = "idle"]_vars
    /\ [][ret' = "false" => tangentCalls' = tangentCalls]_vars

\* C20: mOwnerDestroyed is set only by an onOwnerDestroyed that finds
\* mPendingUploads > 0 and is never cleared; a cache that is released and
\* still alive has mPendingUploads > 0.
C20_ReleasedPendingHasUploads ==
    /\ [](ReleasedPending => mPendingUploads > 0)
    /\ [][mOwnerDestroyed => mOwnerDestroyed']_vars
    /\ [][(~mOwnerDestroyed /\ mOwnerDestroyed') =>
            /\ helperAlive /\ ~helperAlive'
            /\ mPendingUploads > 0
            /\ cacheAlive']_vars

\* The owner released the cache while two uploads were in flight.
C20_Witness ==
    /\ ReleasedPending
    /\ mPendingUploads >= 2
    /\ inFlight = mPendingUploads

====
